---------------------------- MODULE Spec2Model ----------------------------
(***************************************************************************)
(* Model of conman/scripts/ud-preverbal.py: script(an, lang), the analysis *)
(* of the prefield of one dependency-parsed clause (a "hit" anchored on a  *)
(* finite verb).                                                           *)
(*                                                                         *)
(* A token is its position in the hit (1..Len(hit)); 0 stands for None.    *)
(* hit[i] is the record of the token's tags (form, UPOS, DEPREL, FEATS)    *)
(* and of its parent.  Python strings are TLA+ strings; a regular          *)
(* expression reads a string through Chars, its sequence of characters.    *)
(***************************************************************************)
EXTENDS Integers, Sequences, FiniteSets, TLC

VARIABLES
    hit,        \* an.hit: the clause, a sequence of token records
    kws,        \* hit.kws: the anchor tokens (<<>> or <<position>>)
    lang,       \* the language selector
    tags,       \* hit.tags: the output tag store (key -> value)
    pc,         \* position of script(): start, locators, pass1, taggers,
                \* testcode, done, error
    T_ix,       \* an.get_ix_from_tok(T)
    head_ix,    \* an.get_ix_from_tok(head)
    w1_ix,      \* an.get_ix_from_tok(w1)
    prefield,   \* hit[w1_ix:T_ix], as the sequence of its tokens
    prefield_interjection_status,
    prefield_clitic_status,
    prefield_conjunction_status,
    prefield_c_status,
    l,          \* the accumulator of the Pass 1 loop
    i,          \* the number of iterations of the Pass 1 loop done
    prefield_countable_head_status,
    rank_tok    \* rank k -> the token whose tag line 346 stored (0: none)

vars == <<hit, kws, lang, tags, pc, T_ix, head_ix, w1_ix, prefield,
          prefield_interjection_status, prefield_clitic_status,
          prefield_conjunction_status, prefield_c_status, l, i,
          prefield_countable_head_status, rank_tok>>

-----------------------------------------------------------------------------
(* Strings as character sequences.                                         *)

\* The characters of every string of the model's vocabulary (forms and
\* dependency relations).
Chars(s) ==
    CASE s = "Hier"      -> <<"H","i","e","r">>
      [] s = "Jean"      -> <<"J","e","a","n">>
      [] s = "parlé"     -> <<"p","a","r","l","é">>
      [] s = ","         -> <<",">>
      [] s = "parle"     -> <<"p","a","r","l","e">>
      [] s = "a"         -> <<"a">>
      [] s = "est"       -> <<"e","s","t">>
      [] s = "roi"       -> <<"r","o","i">>
      [] s = "sire"      -> <<"s","i","r","e">>
      [] s = "bon"       -> <<"b","o","n">>
      [] s = "et"        -> <<"e","t">>
      [] s = "que"       -> <<"q","u","e">>
      [] s = "qui"       -> <<"q","u","i">>
      [] s = "dont"      -> <<"d","o","n","t">>
      [] s = "où"        -> <<"o","ù">>
      [] s = "comment"   -> <<"c","o","m","m","e","n","t">>
      [] s = "le"        -> <<"l","e">>
      [] s = "Le"        -> <<"L","e">>
      [] s = "lui"       -> <<"l","u","i">>
      [] s = "ne"        -> <<"n","e">>
      [] s = "y"         -> <<"y">>
      [] s = "ah"        -> <<"a","h">>
      [] s = "je"        -> <<"j","e">>
      [] s = "tu"        -> <<"t","u">>
      [] s = "il"        -> <<"i","l">>
      [] s = "ils"       -> <<"i","l","s">>
      [] s = "elle"      -> <<"e","l","l","e">>
      [] s = "elles"     -> <<"e","l","l","e","s">>
      [] s = "nous"      -> <<"n","o","u","s">>
      [] s = "vous"      -> <<"v","o","u","s">>
      [] s = "Vous"      -> <<"V","o","u","s">>
      [] s = "ce"        -> <<"c","e">>
      [] s = "cil"       -> <<"c","i","l">>
      [] s = "on"        -> <<"o","n">>
      [] s = "si"        -> <<"s","i">>
      [] s = "se"        -> <<"s","e">>
      [] s = "s'"        -> <<"s","'">>
      [] s = "vint"      -> <<"v","i","n","t">>
      [] s = "venir"     -> <<"v","e","n","i","r">>
      [] s = "de"        -> <<"d","e">>
      [] s = "De"        -> <<"D","e">>
      [] s = "à"         -> <<"à">>
      [] s = "au"        -> <<"a","u">>
      [] s = "en"        -> <<"e","n">>
      [] s = "par"       -> <<"p","a","r">>
      [] s = "pour"      -> <<"p","o","u","r">>
      [] s = "sur"       -> <<"s","u","r">>
      [] s = "root"      -> <<"r","o","o","t">>
      [] s = "aux"       -> <<"a","u","x">>
      [] s = "aux:pass"  -> <<"a","u","x",":","p","a","s","s">>
      [] s = "cop"       -> <<"c","o","p">>
      [] s = "nsubj"     -> <<"n","s","u","b","j">>
      [] s = "nsubj:pass" -> <<"n","s","u","b","j",":","p","a","s","s">>
      [] s = "obj"       -> <<"o","b","j">>
      [] s = "obl"       -> <<"o","b","l">>
      [] s = "advmod"    -> <<"a","d","v","m","o","d">>
      [] s = "amod"      -> <<"a","m","o","d">>
      [] s = "det"       -> <<"d","e","t">>
      [] s = "case"      -> <<"c","a","s","e">>
      [] s = "cc"        -> <<"c","c">>
      [] s = "mark"      -> <<"m","a","r","k">>
      [] s = "punct"     -> <<"p","u","n","c","t">>
      [] s = "discourse" -> <<"d","i","s","c","o","u","r","s","e">>
      [] s = "parataxis" -> <<"p","a","r","a","t","a","x","i","s">>
      [] s = "vocative"  -> <<"v","o","c","a","t","i","v","e">>
      [] s = "_"         -> <<"_">>
      [] s = "VerbForm=Fin" -> <<"V","e","r","b","F","o","r","m","=","F","i","n">>
      [] s = "VerbForm=Inf" -> <<"V","e","r","b","F","o","r","m","=","I","n","f">>
      [] s = "Mood=Ind|VerbForm=Fin" ->
             <<"M","o","o","d","=","I","n","d","|",
               "V","e","r","b","F","o","r","m","=","F","i","n">>

\* str.lower(), one character: the upper-case letters of the vocabulary.
LowerChar(c) ==
    CASE c = "H" -> "h" [] c = "J" -> "j" [] c = "L" -> "l"
      [] c = "V" -> "v" [] c = "D" -> "d" [] OTHER -> c

\* str(tok).lower() as a character sequence
lower(s) == [n \in 1..Len(Chars(s)) |-> LowerChar(Chars(s)[n])]

-----------------------------------------------------------------------------
(* Regular expressions (module re): a pattern is a tree of nodes; Ends is  *)
(* the set of positions at which a match starting at position p can end.   *)

RSet(S)   == [k |-> "set", cs |-> S, subs |-> <<>>]     \* [abc], or one char
RLit(c)   == RSet({c})
RAny      == [k |-> "any", cs |-> {}, subs |-> <<>>]    \* .
RCat(rs)  == [k |-> "cat", cs |-> {}, subs |-> rs]      \* r1 r2 ...
RAlt(rs)  == [k |-> "alt", cs |-> {}, subs |-> rs]      \* r1|r2|...
ROpt(r)   == [k |-> "opt", cs |-> {}, subs |-> <<r>>]   \* r?
RStar(r)  == [k |-> "star", cs |-> {}, subs |-> <<r>>]  \* r*

RECURSIVE Ends(_, _, _), EndsCat(_, _, _, _), EndsStar(_, _, _)
Ends(r, s, p) ==
    CASE r.k = "set"  -> IF p < Len(s) /\ s[p + 1] \in r.cs THEN {p + 1} ELSE {}
      [] r.k = "any"  -> IF p < Len(s) THEN {p + 1} ELSE {}
      [] r.k = "cat"  -> EndsCat(r.subs, 1, s, {p})
      [] r.k = "alt"  -> UNION {Ends(r.subs[j], s, p) : j \in DOMAIN r.subs}
      [] r.k = "opt"  -> {p} \cup Ends(r.subs[1], s, p)
      [] r.k = "star" -> EndsStar(r.subs[1], s, {p})
EndsCat(rs, j, s, P) ==
    IF j > Len(rs) THEN P
    ELSE EndsCat(rs, j + 1, s, UNION {Ends(rs[j], s, p) : p \in P})
EndsStar(r, s, P) ==
    LET Q == P \cup UNION {Ends(r, s, p) : p \in P}
    IN  IF Q = P THEN P ELSE EndsStar(r, s, Q)

\* str.find(sub): the lowest index (from 0) at which sub occurs in s, or -1
find(s, sub) ==
    LET at == {p \in 0..(Len(s) - Len(sub)) :
                  \A n \in 1..Len(sub) : s[p + n] = sub[n]}
    IN  IF at = {} THEN -1 ELSE CHOOSE p \in at : \A q \in at : p <= q

\* re.fullmatch(r, s) and re.match(r, s), as truth values
fullmatch(r, s) == Len(s) \in Ends(r, s, 0)
match(r, s)     == Ends(r, s, 0) # {}

-----------------------------------------------------------------------------
(* The patterns of the source, one definition per regular expression.      *)

\* a literal word
RWord(cs) == RCat([n \in 1..Len(cs) |-> RLit(cs[n])])

\* ADPS_FR: (lemma, pattern) in table order
ADPS_FR == <<
    \* ('à', r'[aà][uls]?[sx]?|ad')
    [tag |-> "à", regex |-> RAlt(<<
        RCat(<<RSet({"a","à"}), ROpt(RSet({"u","l","s"})), ROpt(RSet({"s","x"}))>>),
        RWord(<<"a","d">>)>>)],
    \* ('de', r"d[eu']|del?s?|dou")
    [tag |-> "de", regex |-> RAlt(<<
        RCat(<<RLit("d"), RSet({"e","u","'"})>>),
        RCat(<<RLit("d"), RLit("e"), ROpt(RLit("l")), ROpt(RLit("s"))>>),
        RWord(<<"d","o","u">>)>>)],
    \* ('en', r"[ea][nm]|el|es|o?u")
    [tag |-> "en", regex |-> RAlt(<<
        RCat(<<RSet({"e","a"}), RSet({"n","m"})>>),
        RWord(<<"e","l">>),
        RWord(<<"e","s">>),
        RCat(<<ROpt(RLit("o")), RLit("u")>>)>>)],
    \* ('par', r'p[ae]r')
    [tag |-> "par", regex |-> RCat(<<RLit("p"), RSet({"a","e"}), RLit("r")>>)],
    \* ('pour', r'p(o|u|ou)r')
    [tag |-> "pour", regex |-> RCat(<<RLit("p"),
        RAlt(<<RLit("o"), RLit("u"), RWord(<<"o","u">>)>>), RLit("r")>>)]
    >>

\* r'aux.*|cop' (get_head)
RE_aux_cop == RAlt(<<RCat(<<RWord(<<"a","u","x">>), RStar(RAny)>>),
                     RWord(<<"c","o","p">>)>>)
\* r"k|qu?" (_is_c_element_fr)
RE_qu == RAlt(<<RLit("k"), RCat(<<RLit("q"), ROpt(RLit("u"))>>)>>)
\* r"cu[iy]"
RE_cui == RCat(<<RLit("c"), RLit("u"), RSet({"i","y"})>>)
\* r"d[ou][nm]"
RE_dont == RCat(<<RLit("d"), RSet({"o","u"}), RSet({"n","m"})>>)
\* r"u|o[uù]?"
RE_ou == RAlt(<<RLit("u"), RCat(<<RLit("o"), ROpt(RSet({"u","ù"}))>>)>>)
\* r"comm?[ae]nt"
RE_comment == RCat(<<RLit("c"), RLit("o"), RLit("m"), ROpt(RLit("m")),
                     RSet({"a","e"}), RLit("n"), RLit("t")>>)
\* r"combien"
RE_combien == RWord(<<"c","o","m","b","i","e","n">>)
\* r"([mtsl][e']?)|l[aiyou]|l[aeo][sz]|l(o|u|ou|eu)r|lu[iy]" (_is_prefield_clitic_fr)
RE_clitic_pron == RAlt(<<
    RCat(<<RSet({"m","t","s","l"}), ROpt(RSet({"e","'"}))>>),
    RCat(<<RLit("l"), RSet({"a","i","y","o","u"})>>),
    RCat(<<RLit("l"), RSet({"a","e","o"}), RSet({"s","z"})>>),
    RCat(<<RLit("l"), RAlt(<<RLit("o"), RLit("u"), RWord(<<"o","u">>),
                             RWord(<<"e","u">>)>>), RLit("r")>>),
    RCat(<<RLit("l"), RLit("u"), RSet({"i","y"})>>)>>)
\* r'nsubj'
RE_nsubj == RWord(<<"n","s","u","b","j">>)
\* r"[nv](o|u|ou)[sz]"
RE_nous_vous == RCat(<<RSet({"n","v"}),
    RAlt(<<RLit("o"), RLit("u"), RWord(<<"o","u">>)>>), RSet({"s","z"})>>)
\* r"n[eo']?|ne[lmns]|[ae][nm]|[iy]"
RE_clitic_adv == RAlt(<<
    RCat(<<RLit("n"), ROpt(RSet({"e","o","'"}))>>),
    RCat(<<RLit("n"), RLit("e"), RSet({"l","m","n","s"})>>),
    RCat(<<RSet({"a","e"}), RSet({"n","m"})>>),
    RSet({"i","y"})>>)
\* r"s[ie'][ls]?" (_tag_form_fr)
RE_si == RCat(<<RLit("s"), RSet({"i","e","'"}), ROpt(RSet({"l","s"}))>>)
\* r"[gj][eo']u?[ls]?|gié|tu|[iy]l[sz]?|ell?e?[sz]?|n[ou]u?[sz]|v[ou]u?][sz]"
\* (the "]" after u? stands outside a character class: a literal "]")
RE_prs_nom == RAlt(<<
    RCat(<<RSet({"g","j"}), RSet({"e","o","'"}), ROpt(RLit("u")), ROpt(RSet({"l","s"}))>>),
    RWord(<<"g","i","é">>),
    RWord(<<"t","u">>),
    RCat(<<RSet({"i","y"}), RLit("l"), ROpt(RSet({"s","z"}))>>),
    RCat(<<RLit("e"), RLit("l"), ROpt(RLit("l")), ROpt(RLit("e")), ROpt(RSet({"s","z"}))>>),
    RCat(<<RLit("n"), RSet({"o","u"}), ROpt(RLit("u")), RSet({"s","z"})>>),
    RCat(<<RLit("v"), RSet({"o","u"}), ROpt(RLit("u")), RLit("]"), RSet({"s","z"})>>)>>)
\* r"[cç][eo']u?"
RE_dem_ce == RCat(<<RSet({"c","ç"}), RSet({"e","o","'"}), ROpt(RLit("u"))>>)
\* r"[iy]?c[ie](ll?|s|z|st|ste[sz])"
RE_dem == RCat(<<ROpt(RSet({"i","y"})), RLit("c"), RSet({"i","e"}),
    RAlt(<<RCat(<<RLit("l"), ROpt(RLit("l"))>>), RLit("s"), RLit("z"),
           RWord(<<"s","t">>),
           RCat(<<RLit("s"), RLit("t"), RLit("e"), RSet({"s","z"})>>)>>)>>)

-----------------------------------------------------------------------------
(* The Tree Navigator `an` (external: spec section 4.1).                   *)

french == "french"

\* an.get_parent(tok): the parent, or None (0)
get_parent(tok) == hit[tok].parent

\* a finite set of positions as the sequence in clause order
RECURSIVE InOrder(_)
InOrder(S) ==
    IF S = {} THEN <<>>
    ELSE LET m == CHOOSE x \in S : \A y \in S : x <= y
         IN  <<m>> \o InOrder(S \ {m})

\* an.get_children(tok): the direct children, in clause order
get_children(tok) == InOrder({c \in DOMAIN hit : hit[c].parent = tok})

\* an.get_descendents(tok): all descendants, sorted by clause position
RECURSIVE DescendentSet(_)
DescendentSet(S) ==
    LET N == S \cup {c \in DOMAIN hit : hit[c].parent \in S}
    IN  IF N = S THEN S ELSE DescendentSet(N)
get_descendents(tok) ==
    InOrder(DescendentSet({c \in DOMAIN hit : hit[c].parent = tok}))

\* an.get_next_tok(tok): the next token of the clause, or None (0)
get_next_tok(tok) == IF tok < Len(hit) THEN tok + 1 ELSE 0

\* `tok in prefield`
in_prefield(tok) == \E n \in DOMAIN prefield : prefield[n] = tok

-----------------------------------------------------------------------------
(* Getters (lines 27-43).  T is the token at T_ix, head the one at head_ix.*)

get_head(T) ==
    IF fullmatch(RE_aux_cop, Chars(hit[T].DEPREL)) THEN get_parent(T) ELSE T

\* get_w1 without the test that the first descendant precedes tok
get_w1_first(tok) ==
    LET d  == get_descendents(tok)
        ll == SelectSeq(d, LAMBDA x : hit[x].UPOS # "PUNCT")
    IN  IF ll # <<>> THEN ll[1] ELSE tok

get_w1(tok) ==
    LET d  == get_descendents(tok)
        ll == SelectSeq(d, LAMBDA x : hit[x].UPOS # "PUNCT")
    IN  IF ll # <<>> /\ ll[1] < tok THEN ll[1] ELSE tok

-----------------------------------------------------------------------------
(* Function group 1: special tokens, universal (lines 54-92).              *)

\* could_be_prefield_clitic without the look at the next token
could_be_prefield_clitic_nochain(tok) ==
    IF ~ in_prefield(tok) THEN FALSE
    ELSE IF get_children(tok) # <<>> THEN FALSE
    ELSE IF hit[tok].UPOS \notin {"PRON", "ADV"} THEN FALSE
    ELSE TRUE

RECURSIVE could_be_prefield_clitic(_)
could_be_prefield_clitic(tok) ==
    IF ~ in_prefield(tok) THEN FALSE
    ELSE IF get_children(tok) # <<>> THEN FALSE
    ELSE IF hit[tok].UPOS \notin {"PRON", "ADV"} THEN FALSE
    ELSE LET next_tok == get_next_tok(tok)
         IN  IF in_prefield(next_tok) /\ ~ could_be_prefield_clitic(next_tok)
             THEN FALSE
             ELSE TRUE

\* is_dephead without the exclusion of punctuation
is_dephead_punct(tok) ==
    IF tok = head_ix /\ T_ix # head_ix /\ hit[T_ix].DEPREL = "cop" THEN TRUE
    ELSE get_parent(tok) = head_ix

is_dephead(tok) ==
    IF tok = head_ix /\ T_ix # head_ix /\ hit[T_ix].DEPREL = "cop" THEN TRUE
    ELSE IF hit[tok].UPOS # "PUNCT" THEN get_parent(tok) = head_ix ELSE FALSE

could_be_c_head(tok) ==
    IF ~ in_prefield(tok) THEN FALSE
    ELSE IF ~ is_dephead(tok) THEN FALSE
    ELSE IF hit[tok].UPOS \notin {"SCONJ", "PRON", "ADV"} THEN FALSE
    ELSE TRUE

is_prefield_conjunction(tok) ==
    IF ~ in_prefield(tok) THEN FALSE
    ELSE IF ~ is_dephead(tok) THEN FALSE
    ELSE IF get_children(tok) # <<>> THEN FALSE
    ELSE IF ~ (hit[tok].UPOS = "CCONJ") THEN FALSE
    ELSE TRUE

is_prefield_interjection(tok) ==
    IF ~ in_prefield(tok) THEN FALSE
    ELSE IF ~ (hit[tok].UPOS = "INTJ") THEN FALSE
    ELSE TRUE

(* Function group 2: special deprels, universal (lines 98-112).            *)

is_parenthetical(tok) ==
    IF ~ is_dephead(tok) THEN FALSE
    ELSE IF ~ (hit[tok].DEPREL = "parataxis") THEN FALSE
    ELSE IF tok = head_ix THEN FALSE
    ELSE TRUE

is_vocative(tok) ==
    IF ~ is_dephead(tok) THEN FALSE
    ELSE IF ~ (hit[tok].DEPREL = "vocative") THEN FALSE
    ELSE TRUE

-----------------------------------------------------------------------------
(* Special tokens, language-specific (lines 117-180).                      *)

\* is_c_element and _is_c_element_fr call each other through the parent;
\* depth counts the calls.  The result is "True", "False" or, when the
\* parent chain never ends (a cycle), "RecursionError": a chain longer than
\* the clause has met some token twice and so goes on until Python's
\* recursion limit.
RECURSIVE is_c_element(_, _), _is_c_element_fr(_, _)
is_c_element(tok, depth) ==
    IF lang = french THEN _is_c_element_fr(tok, depth)
    ELSE "False"
_is_c_element_fr(tok, depth) ==
    IF ~ could_be_c_head(tok)
    THEN LET parent == get_parent(tok)
         IN  IF parent = 0 THEN "False"
             ELSE IF depth >= Len(hit) THEN "RecursionError"
             ELSE is_c_element(parent, depth + 1)
    ELSE IF hit[tok].UPOS = "SCONJ" THEN "True"
    ELSE IF hit[tok].UPOS = "PRON"
         THEN IF match(RE_qu, lower(hit[tok].form)) THEN "True"
              ELSE IF fullmatch(RE_cui, lower(hit[tok].form)) THEN "True"
              ELSE IF match(RE_dont, lower(hit[tok].form)) THEN "True"
              ELSE IF fullmatch(RE_ou, lower(hit[tok].form)) THEN "True"
              ELSE "False"
    ELSE IF hit[tok].UPOS = "ADV"
         THEN IF match(RE_comment, lower(hit[tok].form)) THEN "True"
              ELSE IF match(RE_combien, lower(hit[tok].form)) THEN "True"
              ELSE "False"
    ELSE "False"    \* falls off the end (None); unreachable after could_be_c_head

_is_prefield_clitic_fr(tok) ==
    IF ~ could_be_prefield_clitic(tok) THEN FALSE
    ELSE IF hit[tok].UPOS = "PRON"
         THEN IF fullmatch(RE_clitic_pron, lower(hit[tok].form)) THEN TRUE
              ELSE IF ~ match(RE_nsubj, Chars(hit[tok].DEPREL))
                      /\ fullmatch(RE_nous_vous, lower(hit[tok].form)) THEN TRUE
              ELSE FALSE
    ELSE IF hit[tok].UPOS = "ADV"
         THEN IF fullmatch(RE_clitic_adv, lower(hit[tok].form)) THEN TRUE
              ELSE FALSE
    ELSE FALSE

\* is_prefield_clitic without the test of the language
is_prefield_clitic_anylang(tok) == _is_prefield_clitic_fr(tok)

is_prefield_clitic(tok) ==
    IF lang = french THEN _is_prefield_clitic_fr(tok)
    ELSE FALSE

-----------------------------------------------------------------------------
(* Tagging functions, language-dependent (lines 185-244).                  *)

\* the first (lemma) of ADPS_FR, from entry n on, whose pattern fully
\* matches s; "P" when none does
RECURSIVE adp_lemma(_, _)
adp_lemma(s, n) ==
    IF n > Len(ADPS_FR) THEN "P"
    ELSE IF fullmatch(ADPS_FR[n].regex, s) THEN ADPS_FR[n].tag
    ELSE adp_lemma(s, n + 1)

\* _tag_p_form_fr going on to the next child when an adposition matches
\* no pattern (`return 'P'` only after the loop)
RECURSIVE tag_p_form_fr_skip(_, _)
tag_p_form_fr_skip(toks, n) ==
    IF n > Len(toks) THEN ""
    ELSE IF hit[toks[n]].UPOS # "ADP" \/ hit[toks[n]].DEPREL # "case"
         THEN tag_p_form_fr_skip(toks, n + 1)
    ELSE IF adp_lemma(lower(hit[toks[n]].form), 1) # "P"
         THEN adp_lemma(lower(hit[toks[n]].form), 1)
    ELSE IF tag_p_form_fr_skip(toks, n + 1) = "" THEN "P"
    ELSE tag_p_form_fr_skip(toks, n + 1)

\* _tag_p_form_fr(toks), from the n-th token of toks on
RECURSIVE _tag_p_form_fr_from(_, _)
_tag_p_form_fr_from(toks, n) ==
    IF n > Len(toks) THEN ""
    ELSE IF hit[toks[n]].UPOS # "ADP" \/ hit[toks[n]].DEPREL # "case"
         THEN _tag_p_form_fr_from(toks, n + 1)
    ELSE adp_lemma(lower(hit[toks[n]].form), 1)

_tag_p_form_fr(toks) == _tag_p_form_fr_from(toks, 1)

\* the tag of _tag_form_fr before "Retag PPs" (lines 193-229)
base_tag_fr(tok) ==
    IF hit[tok].UPOS = "ADV" /\ fullmatch(RE_si, lower(hit[tok].form))
        THEN "ADVP:si"
    ELSE IF hit[tok].UPOS = "PRON" /\ fullmatch(RE_prs_nom, lower(hit[tok].form))
        THEN "NP:PRON:Prs:Nom"
    ELSE IF hit[tok].UPOS = "PRON" /\ fullmatch(RE_dem_ce, lower(hit[tok].form))
        THEN "NP:PRON:Dem:ce"
    ELSE IF hit[tok].UPOS = "PRON" /\ fullmatch(RE_dem, lower(hit[tok].form))
        THEN "NP:PRON:Dem"
    ELSE IF hit[tok].UPOS = "PRON" THEN "NP:PRON"
    ELSE IF hit[tok].UPOS \in {"NOUN", "PROPN"} THEN "NP"
    ELSE IF hit[tok].UPOS = "VERB"
            /\ find(Chars(hit[tok].FEATS), Chars("VerbForm=Fin")) > -1 THEN "TP"
    ELSE IF hit[tok].UPOS = "VERB" THEN "VP"
    ELSE IF hit[tok].UPOS = "ADJ" THEN "AP"
    ELSE IF hit[tok].UPOS = "ADV" THEN "ADVP"
    ELSE "XX"

_tag_form_fr(tok) ==
    LET children == get_children(tok)
        P   == _tag_p_form_fr(children)
        tag == base_tag_fr(tok)
    IN  IF P = "P" THEN "PP[" \o tag \o "]"
        ELSE IF P # "" THEN "PP:" \o P \o "[" \o tag \o "]"
        ELSE tag

tag_form(tok) ==
    IF lang = french THEN _tag_form_fr(tok)
    ELSE ""

-----------------------------------------------------------------------------
(* The tag store hit.tags: a dictionary, here a function on the keys set.  *)

NoTags == <<>>

RankKeys == {"T-1_form", "T-2_form", "T-3_form", "T-4_form"}
ListKeys == {"prefield_clitics", "prefield_conjunctions", "prefield_cs",
             "prefield_countable_heads"}
OutputKeys == RankKeys \cup ListKeys \cup {"T", "head", "w1", "prefield"}

\* 'T-' + str(k) + '_form'
str(k) == CASE k = 1 -> "1" [] k = 2 -> "2" [] k = 3 -> "3" [] k = 4 -> "4"
            [] k = 5 -> "5" [] k = 6 -> "6" [] k = 7 -> "7" [] k = 8 -> "8"
key_form(k) == "T-" \o str(k) \o "_form"

\* d[k] = v
SetItem(d, k, v) == [x \in DOMAIN d \cup {k} |-> IF x = k THEN v ELSE d[x]]

\* ' '.join(ss)
RECURSIVE join(_)
join(ss) ==
    IF ss = <<>> THEN ""
    ELSE IF Len(ss) = 1 THEN ss[1]
    ELSE ss[1] \o " " \o join(Tail(ss))

\* [str(tok) for status, tok in zip(status, prefield) if status]
forms_where(status) ==
    LET sel == SelectSeq([n \in 1..Len(status) |-> n], LAMBDA n : status[n])
    IN  [m \in 1..Len(sel) |-> hit[prefield[sel[m]]].form]

-----------------------------------------------------------------------------
(* script(an, lang): lines 262-369.                                        *)

NRanks == 4     \* range(1, 5), and `if i > 4`

\* Lines 262-270.  an.reset_ids() renumbers the tokens: positions here are
\* the renumbered ones.
Locate ==
    /\ pc = "start"
    /\ kws # <<>>
    /\ LET T    == kws[1]
           head == get_head(T)
       IN  /\ head # 0
           /\ T_ix' = T
           /\ head_ix' = head
           /\ w1_ix' = get_w1(head)
           /\ prefield' = [n \in 1..(T - get_w1(head)) |-> get_w1(head) + n - 1]
    /\ pc' = "locators"
    /\ UNCHANGED <<hit, kws, lang, tags, prefield_interjection_status,
                   prefield_clitic_status, prefield_conjunction_status,
                   prefield_c_status, l, i, prefield_countable_head_status,
                   rank_tok>>

\* Line 264 with no anchor: hit.kws[0] raises IndexError.
LocateFail ==
    /\ pc = "start"
    /\ kws = <<>>
    /\ pc' = "error"
    /\ UNCHANGED <<hit, kws, lang, tags, T_ix, head_ix, w1_ix, prefield,
                   prefield_interjection_status, prefield_clitic_status,
                   prefield_conjunction_status, prefield_c_status, l, i,
                   prefield_countable_head_status, rank_tok>>

\* is_c_element(x) for x in prefield, each with its outcome
c_outcomes == [n \in DOMAIN prefield |-> is_c_element(prefield[n], 0)]

\* Lines 272-281: the four status lists, and l = [].
Classify ==
    /\ pc = "locators"
    /\ \A n \in DOMAIN prefield : c_outcomes[n] # "RecursionError"
    /\ prefield_interjection_status' =
           [n \in DOMAIN prefield |-> is_prefield_interjection(prefield[n])]
    /\ prefield_clitic_status' =
           [n \in DOMAIN prefield |-> is_prefield_clitic(prefield[n])]
    /\ prefield_conjunction_status' =
           [n \in DOMAIN prefield |-> is_prefield_conjunction(prefield[n])]
    /\ prefield_c_status' = [n \in DOMAIN prefield |-> c_outcomes[n] = "True"]
    /\ l' = <<>>
    /\ i' = 0
    /\ pc' = "pass1"
    /\ UNCHANGED <<hit, kws, lang, tags, T_ix, head_ix, w1_ix, prefield,
                   prefield_countable_head_status, rank_tok>>

\* Line 278 on a parent chain that never ends: RecursionError; the lists of
\* lines 272-276 are locals and die with the call.
ClassifyFail ==
    /\ pc = "locators"
    /\ \E n \in DOMAIN prefield : c_outcomes[n] = "RecursionError"
    /\ pc' = "error"
    /\ UNCHANGED <<hit, kws, lang, tags, T_ix, head_ix, w1_ix, prefield,
                   prefield_interjection_status, prefield_clitic_status,
                   prefield_conjunction_status, prefield_c_status, l, i,
                   prefield_countable_head_status, rank_tok>>

\* the body of the Pass 1 loop recording False at a conjunction or C element
\* without resetting the list
pass1_body_noreset(acc, n) ==
    IF prefield_conjunction_status[n] \/ prefield_c_status[n]
        THEN Append(acc, FALSE)
    ELSE IF prefield_clitic_status[n] \/ prefield_interjection_status[n]
        THEN Append(acc, FALSE)
    ELSE Append(acc, is_dephead(prefield[n]))

\* Lines 291-297: the body of the Pass 1 loop at the token n of the
\* prefield (Python's i is n - 1).
pass1_body(acc, n) ==
    IF prefield_conjunction_status[n] \/ prefield_c_status[n]
        THEN [m \in 1..n |-> FALSE]
    ELSE IF prefield_clitic_status[n] \/ prefield_interjection_status[n]
        THEN Append(acc, FALSE)
    ELSE Append(acc, is_dephead(prefield[n]))

\* Lines 282-297: one iteration of the Pass 1 loop.
Pass1Step ==
    /\ pc = "pass1"
    /\ i < Len(prefield)
    /\ l' = pass1_body(l, i + 1)
    /\ i' = i + 1
    /\ UNCHANGED <<hit, kws, lang, tags, pc, T_ix, head_ix, w1_ix, prefield,
                   prefield_interjection_status, prefield_clitic_status,
                   prefield_conjunction_status, prefield_c_status,
                   prefield_countable_head_status, rank_tok>>

\* Lines 301-315 at one position: dephead and not parenthetical and not
\* vocative.
countable_head(dephead, tok) ==
    IF dephead /\ ~ is_parenthetical(tok) /\ ~ is_vocative(tok) THEN TRUE
    ELSE FALSE

\* Lines 298-315: the loop is over; prefield_dephead_status = l, Pass 2.
Pass2 ==
    /\ pc = "pass1"
    /\ i = Len(prefield)
    /\ prefield_countable_head_status' =
           [n \in 1..Len(l) |-> countable_head(l[n], prefield[n])]
    /\ pc' = "taggers"
    /\ UNCHANGED <<hit, kws, lang, tags, T_ix, head_ix, w1_ix, prefield,
                   prefield_interjection_status, prefield_clitic_status,
                   prefield_conjunction_status, prefield_c_status, l, i,
                   rank_tok>>

\* Lines 342-346: the body of the rank loop at the token n of the prefield;
\* st is the loop's state: the counter, the tag store, the rank sources.
rank_body(st, n) ==
    IF ~ prefield_countable_head_status[n] THEN st
    ELSE IF st.cnt + 1 > NRanks THEN [st EXCEPT !.cnt = st.cnt + 1]
    ELSE [cnt |-> st.cnt + 1,
          tags |-> SetItem(st.tags, key_form(st.cnt + 1), tag_form(prefield[n])),
          src |-> [st.src EXCEPT ![st.cnt + 1] = prefield[n]]]

\* the rank loop without reversed(): from the first token to the token n
RECURSIVE rank_loop_forward(_, _)
rank_loop_forward(st, n) ==
    IF n = 0 THEN st ELSE rank_body(rank_loop_forward(st, n - 1), n)

\* Lines 337-346: the loop over reversed(zip(status, prefield)), from the
\* token n down to the first.
RECURSIVE rank_loop(_, _)
rank_loop(st, n) ==
    IF n = 0 THEN st ELSE rank_loop(rank_body(st, n), n - 1)

\* T-k_form set to '' only where the key is missing (setdefault)
init_forms_keep(d) ==
    [x \in DOMAIN d \cup RankKeys |-> IF x \in DOMAIN d THEN d[x] ELSE ""]

\* Lines 332-334: every T-k_form set to ''.
init_forms(d) == [x \in DOMAIN d \cup RankKeys |-> IF x \in RankKeys THEN "" ELSE d[x]]

\* Lines 332-346.
Taggers ==
    /\ pc = "taggers"
    /\ LET st == rank_loop([cnt |-> 0, tags |-> init_forms(tags),
                            src |-> [k \in 1..NRanks |-> 0]],
                           Len(prefield_countable_head_status))
       IN  /\ tags' = st.tags
           /\ rank_tok' = st.src
    /\ pc' = "testcode"
    /\ UNCHANGED <<hit, kws, lang, T_ix, head_ix, w1_ix, prefield,
                   prefield_interjection_status, prefield_clitic_status,
                   prefield_conjunction_status, prefield_c_status, l, i,
                   prefield_countable_head_status>>

\* Lines 350-369: the diagnostic entries.
diagnostics(d) ==
    [x \in DOMAIN d \cup ListKeys \cup {"T", "head", "w1", "prefield"} |->
        CASE x = "prefield_clitics" -> join(forms_where(prefield_clitic_status))
          [] x = "prefield_conjunctions" ->
                 join(forms_where(prefield_conjunction_status))
          [] x = "prefield_cs" -> join(forms_where(prefield_c_status))
          [] x = "prefield_countable_heads" ->
                 join(forms_where(prefield_countable_head_status))
          [] x = "T" -> hit[T_ix].form
          [] x = "head" -> hit[head_ix].form
          [] x = "w1" -> hit[w1_ix].form
          [] x = "prefield" -> [n \in DOMAIN prefield |-> hit[prefield[n]].form]
          [] OTHER -> d[x]]

TestCode ==
    /\ pc = "testcode"
    /\ tags' = diagnostics(tags)
    /\ pc' = "done"
    /\ UNCHANGED <<hit, kws, lang, T_ix, head_ix, w1_ix, prefield,
                   prefield_interjection_status, prefield_clitic_status,
                   prefield_conjunction_status, prefield_c_status, l, i,
                   prefield_countable_head_status, rank_tok>>

Next ==
    \/ Locate
    \/ LocateFail
    \/ Classify
    \/ ClassifyFail
    \/ Pass1Step
    \/ Pass2
    \/ Taggers
    \/ TestCode

-----------------------------------------------------------------------------
(* Inputs: clauses, language selectors and earlier contents of hit.tags.   *)

Tok(form, upos, feats, deprel, parent) ==
    [form |-> form, UPOS |-> upos, FEATS |-> feats, DEPREL |-> deprel,
     parent |-> parent]

\* A prefield token to be placed: att says where it attaches: to the head of
\* the clause, to the token after it, or to nothing in the hit (None).
Kind(form, upos, feats, deprel, att) ==
    [form |-> form, UPOS |-> upos, FEATS |-> feats, DEPREL |-> deprel,
     att |-> att]

MaxPre  == 3    \* prefield tokens placed before the anchor, general clauses
MaxLong == 5    \* the same, long clauses
MaxClit == 3    \* the same, clitic clauses

K_roi   == Kind("roi", "NOUN", "_", "nsubj", "head")
K_bon   == Kind("bon", "ADJ", "_", "amod", "next")
K_et    == Kind("et", "CCONJ", "_", "cc", "head")
K_que   == Kind("que", "SCONJ", "_", "mark", "head")
K_le    == Kind("le", "PRON", "_", "obj", "head")
K_il    == Kind("il", "PRON", "_", "nsubj", "head")
K_punct == Kind(",", "PUNCT", "_", "punct", "head")
K_ah    == Kind("ah", "INTJ", "_", "discourse", "none")
K_sire  == Kind("sire", "NOUN", "_", "vocative", "head")
K_vint  == Kind("vint", "VERB", "VerbForm=Fin", "parataxis", "head")
K_qui   == Kind("qui", "PRON", "_", "nsubj", "head")
K_ne    == Kind("ne", "ADV", "_", "advmod", "head")

Palette       == {K_roi, K_bon, K_et, K_que, K_le, K_punct, K_ah, K_sire, K_vint}
PaletteLong   == {K_roi, K_bon, K_et, K_le, K_sire}
PaletteClitic == {K_le, K_il, K_ne, K_qui, K_roi, K_bon}

\* all sequences of at most m kinds of P
KindSeqs(P, m) == UNION {[1..n -> P] : n \in 0..m}

\* The clause of the kinds ks before an anchor: "V" a finite verb that is
\* the root; "O" the same followed by its object; "A" an auxiliary followed
\* by the participle it depends on; "C" a copula preceded by the predicate
\* it depends on.
MkHit(ks, cfg) ==
    LET n  == Len(ks)
        hd == IF cfg = "A" THEN n + 2 ELSE n + 1
        pre == [k \in 1..n |->
                  Tok(ks[k].form, ks[k].UPOS, ks[k].FEATS, ks[k].DEPREL,
                      CASE ks[k].att = "head" -> hd
                        [] ks[k].att = "next" -> k + 1
                        [] ks[k].att = "none" -> 0)]
    IN  CASE cfg = "V" -> pre \o <<Tok("parle", "VERB", "VerbForm=Fin", "root", 0)>>
          [] cfg = "O" -> pre \o <<Tok("parle", "VERB", "VerbForm=Fin", "root", 0),
                                   Tok("roi", "NOUN", "_", "obj", n + 1)>>
          [] cfg = "A" -> pre \o <<Tok("a", "AUX", "Mood=Ind|VerbForm=Fin", "aux", n + 2),
                                   Tok("parlé", "VERB", "_", "root", 0)>>
          [] cfg = "C" -> pre \o <<Tok("bon", "ADJ", "_", "root", 0),
                                   Tok("est", "AUX", "VerbForm=Fin", "cop", n + 1)>>

MkInput(ks, cfg) ==
    [hit |-> MkHit(ks, cfg),
     kws |-> <<IF cfg = "C" THEN Len(ks) + 2 ELSE Len(ks) + 1>>]

\* "Hier, Jean parlé": the end-to-end scenario of the spec
Scenario ==
    [hit |-> <<Tok("Hier", "ADV", "_", "advmod", 4),
               Tok(",", "PUNCT", "_", "punct", 4),
               Tok("Jean", "PRON", "_", "nsubj", 4),
               Tok("parlé", "VERB", "VerbForm=Fin", "root", 0)>>,
     kws |-> <<4>>]

\* Inputs that break the preconditions: no anchor; a cycle of parents in
\* the prefield; a cycle of parents after the anchor.
NoAnchor ==
    [hit |-> <<Tok("roi", "NOUN", "_", "nsubj", 2),
               Tok("parle", "VERB", "VerbForm=Fin", "root", 0)>>,
     kws |-> <<>>]
CycleBefore ==
    [hit |-> <<Tok("roi", "NOUN", "_", "nsubj", 4),
               Tok("bon", "ADJ", "_", "amod", 3),
               Tok("roi", "NOUN", "_", "obl", 2),
               Tok("parle", "VERB", "VerbForm=Fin", "root", 0)>>,
     kws |-> <<4>>]
CycleAfter ==
    [hit |-> <<Tok("roi", "NOUN", "_", "nsubj", 2),
               Tok("parle", "VERB", "VerbForm=Fin", "root", 0),
               Tok("bon", "ADJ", "_", "amod", 4),
               Tok("roi", "NOUN", "_", "obl", 3)>>,
     kws |-> <<2>>]
BadInputs == {NoAnchor, CycleBefore, CycleAfter}

GeneralInputs ==
    {MkInput(ks, cfg) : ks \in KindSeqs(Palette, MaxPre), cfg \in {"V", "O", "A", "C"}}
        \cup {Scenario}
LongInputs == {MkInput(ks, "V") : ks \in KindSeqs(PaletteLong, MaxLong)}
CliticInputs == {MkInput(ks, "V") : ks \in KindSeqs(PaletteClitic, MaxClit)}

\* Clauses for the tagging functions: a prefield constituent, the children
\* kids before it, and the anchor.
MaxKids    == 2    \* children of the tagged token, adposition clauses
MaxKidsTag == 1    \* the same, cascade clauses

MkTagInput(kids, tgt) ==
    LET n == Len(kids)
    IN  [hit |-> [k \in 1..n |-> Tok(kids[k].form, kids[k].UPOS, kids[k].FEATS,
                                     kids[k].DEPREL, n + 1)]
                 \o <<Tok(tgt.form, tgt.UPOS, tgt.FEATS, tgt.DEPREL, n + 2),
                      Tok("parle", "VERB", "VerbForm=Fin", "root", 0)>>,
         kws |-> <<n + 2>>]

AdpKids ==
    {Kind(fm, "ADP", "_", "case", "next") :
        fm \in {"à", "au", "de", "De", "en", "par", "pour", "sur"}}
        \cup {Kind("le", "DET", "_", "det", "next"),
              Kind("de", "ADP", "_", "mark", "next")}
AdpTargets ==
    {Kind("roi", "NOUN", "_", "obl", "head"),
     Kind("Jean", "PROPN", "_", "obl", "head"),
     Kind("il", "PRON", "_", "nsubj", "head")}
AdpInputs ==
    {MkTagInput(kids, tgt) : kids \in KindSeqs(AdpKids, MaxKids), tgt \in AdpTargets}

TagKids == {Kind("de", "ADP", "_", "case", "next"), Kind("le", "DET", "_", "det", "next")}
TagTargets ==
    {Kind(fm, "PRON", "_", "nsubj", "head") :
        fm \in {"je", "tu", "il", "ils", "elle", "elles", "nous", "vous", "Vous",
                "ce", "cil", "on", "Jean"}}
        \cup {Kind(fm, "ADV", "_", "advmod", "head") : fm \in {"si", "se", "s'", "Hier"}}
        \cup {Kind("roi", "NOUN", "_", "nsubj", "head"),
              Kind("Jean", "PROPN", "_", "nsubj", "head"),
              Kind("vint", "VERB", "Mood=Ind|VerbForm=Fin", "obl", "head"),
              Kind("venir", "VERB", "VerbForm=Inf", "obl", "head"),
              Kind("bon", "ADJ", "_", "obl", "head"),
              Kind("à", "ADP", "_", "obl", "head")}
TagInputs ==
    {MkTagInput(kids, tgt) : kids \in KindSeqs(TagKids, MaxKidsTag), tgt \in TagTargets}

Langs == {french, "german"}

\* hit.tags as an earlier analysis of another clause left it
StaleTags ==
    [x \in OutputKeys |->
        IF x \in RankKeys THEN "XX"
        ELSE IF x = "prefield" THEN <<"roi", "le">>
        ELSE "roi"]

InitWith(Inputs) ==
    /\ \E inp \in Inputs \cup BadInputs : hit = inp.hit /\ kws = inp.kws
    /\ lang \in Langs
    /\ tags \in {NoTags, StaleTags}
    /\ pc = "start"
    /\ T_ix = 0
    /\ head_ix = 0
    /\ w1_ix = 0
    /\ prefield = <<>>
    /\ prefield_interjection_status = <<>>
    /\ prefield_clitic_status = <<>>
    /\ prefield_conjunction_status = <<>>
    /\ prefield_c_status = <<>>
    /\ l = <<>>
    /\ i = 0
    /\ prefield_countable_head_status = <<>>
    /\ rank_tok = [k \in 1..NRanks |-> 0]

Init == InitWith(GeneralInputs)
InitLong == InitWith(LongInputs)

InitClitic == InitWith(CliticInputs)
InitAdp == InitWith(AdpInputs)
InitTag == InitWith(TagInputs)

Spec == Init /\ [][Next]_vars
SpecLong == InitLong /\ [][Next]_vars
SpecClitic == InitClitic /\ [][Next]_vars
SpecAdp == InitAdp /\ [][Next]_vars
SpecTag == InitTag /\ [][Next]_vars

-----------------------------------------------------------------------------
(* The claims.                                                             *)

Located   == pc \in {"locators", "pass1", "taggers", "testcode", "done"}
Classed   == pc \in {"pass1", "taggers", "testcode", "done"}
Reduced   == pc \in {"taggers", "testcode", "done"}
Ranked    == pc \in {"testcode", "done"}

Min(a, b) == IF a < b THEN a ELSE b

\* the token n of the prefield is a conjunction or a complementizer
IsBoundary(n) ==
    \/ is_prefield_conjunction(prefield[n])
    \/ is_c_element(prefield[n], 0) = "True"

\* the forms of the prefield tokens at the positions in S, joined
FormsAt(S) == join(forms_where([n \in DOMAIN prefield |-> n \in S]))

\* the positions of the countable heads
Countable == {n \in DOMAIN prefield : prefield_countable_head_status[n]}

\* C1 (reset law): once Pass 1 has passed a prefield token that is a
\* conjunction or a complementizer, the flags of that token and of every
\* token before it are false, whatever was accumulated; after script() none
\* of these tokens is a countable head, the source of a rank, or listed in
\* prefield_countable_heads.
C1_ResetLaw ==
    /\ pc = "pass1" =>
          \A n \in 1..i : IsBoundary(n) => \A m \in 1..n : ~ l[m]
    /\ Reduced =>
          \A n \in DOMAIN prefield : IsBoundary(n) =>
              \A m \in 1..n : ~ prefield_countable_head_status[m]
    /\ Ranked =>
          \A n \in DOMAIN prefield : IsBoundary(n) =>
              \A m \in 1..n : \A k \in 1..NRanks : rank_tok[k] # prefield[m]
    /\ pc = "done" =>
          \A n \in DOMAIN prefield : IsBoundary(n) =>
              tags["prefield_countable_heads"] = FormsAt({m \in Countable : m > n})

\* C1: a clause with a dependent of the head before a conjunction or
\* complementizer and a countable head after it has been analysed.
C1_Witness ==
    /\ pc = "done"
    /\ \E n \in DOMAIN prefield :
          /\ IsBoundary(n)
          /\ \E m \in 1..(n - 1) : is_dephead(prefield[m]) /\ hit[prefield[m]].UPOS = "NOUN"
          /\ \E m \in Countable : m > n

\* C2 (ordering law): rank k belongs to the k-th countable head counted
\* leftwards from the anchor and stores its tag; the sources of filled
\* ranks k and k+1 are in strictly decreasing clause position; a fifth or
\* later countable head changes no rank.
C2_OrderingLaw ==
    Ranked =>
        /\ \A k \in 1..(NRanks - 1) :
              rank_tok[k] # 0 /\ rank_tok[k + 1] # 0 => rank_tok[k] > rank_tok[k + 1]
        /\ \A k \in 1..NRanks : \A n \in Countable :
              Cardinality({m \in Countable : m > n}) = k - 1 =>
                  /\ rank_tok[k] = prefield[n]
                  /\ tags[key_form(k)] = tag_form(prefield[n])

\* C2: a French clause with more than four countable heads has been ranked.
C2_Witness ==
    /\ pc = "done"
    /\ lang = french
    /\ Cardinality(Countable) > NRanks
    /\ tags["T-1_form"] # tags["T-2_form"]

\* the token n of the prefield qualifies: Pass-1 flag, not parenthetical,
\* not vocative
Qualifies(n) ==
    l[n] /\ ~ is_parenthetical(prefield[n]) /\ ~ is_vocative(prefield[n])
NQual == Cardinality({n \in DOMAIN prefield : Qualifies(n)})

\* the ranks that store a non-empty tag are exactly 1..min(4, n)
FilledRanksAreFirst ==
    \A k \in 1..NRanks : (tags[key_form(k)] # "") <=> (k <= Min(NRanks, NQual))

\* C3 (cardinality law) as stated: for every language selector the filled
\* ranks are exactly 1..min(4, n), n the number of qualifying tokens.
C3_Original == Ranked => FilledRanksAreFirst

\* C3 (cardinality law), amended: with the selector 'french' the filled
\* ranks are exactly 1..min(4, n) and the others store '', whatever the
\* store held before; with any other selector every rank stores ''.
C3_CardinalityLaw ==
    Ranked =>
        /\ lang = french => FilledRanksAreFirst
        /\ lang # french => \A k \in 1..NRanks : tags[key_form(k)] = ""

\* C3: a French clause with two qualifying tokens and a vocative has been
\* ranked over a store that held the entries of an earlier analysis.
C3_Witness ==
    /\ pc = "testcode"
    /\ lang = french
    /\ "prefield" \in DOMAIN tags
    /\ NQual = 2
    /\ \E n \in DOMAIN prefield : is_vocative(prefield[n])

\* the structural test of the claim, stated without recursion: tok is in
\* the prefield and every token from tok up to the anchor has no children
\* and is a PRON or an ADV
Eligible(tok) ==
    /\ in_prefield(tok)
    /\ \A m \in tok..(T_ix - 1) :
          get_children(m) = <<>> /\ hit[m].UPOS \in {"PRON", "ADV"}

\* the token n of the prefield is followed in the prefield by a token that
\* fails the structural test
ChainBroken(n) ==
    /\ in_prefield(get_next_tok(prefield[n]))
    /\ ~ Eligible(get_next_tok(prefield[n]))

\* what C4 says of a token whose chain is broken, short of the Pass-1 record
NotAClitic(n) ==
    /\ ~ could_be_prefield_clitic(prefield[n])
    /\ ~ is_prefield_clitic(prefield[n])
    /\ ~ prefield_clitic_status[n]
    /\ pc = "done" =>
          tags["prefield_clitics"] =
              FormsAt({m \in DOMAIN prefield : prefield_clitic_status[m] /\ m # n})

\* the token n of the prefield passes every structural test of a clitic
\* but the one on the next token: it has no children and is a PRON or ADV
Candidate(n) ==
    get_children(prefield[n]) = <<>> /\ hit[prefield[n]].UPOS \in {"PRON", "ADV"}

\* Pass 1 has just recorded the token n of the prefield
JustRecorded(n) == pc = "pass1" /\ i = n

\* C4 (clitic-chain law) as stated: a prefield token followed in the
\* prefield by a token failing the structural test is no clitic and is not
\* listed in prefield_clitics, and when the chain alone disqualifies it
\* Pass 1 records is_dephead(tok) for it.
C4_Original ==
    Classed =>
        /\ \A n \in DOMAIN prefield :
              could_be_prefield_clitic(prefield[n]) = Eligible(prefield[n])
        /\ \A n \in DOMAIN prefield : ChainBroken(n) =>
              /\ NotAClitic(n)
              /\ (Candidate(n) /\ JustRecorded(n)) => l[n] = is_dephead(prefield[n])

\* C4 (clitic-chain law), amended: such a token is no clitic and is not
\* listed in prefield_clitics; the continuation is the structural test
\* alone; Pass 1 records is_dephead(tok) for it unless the token is itself
\* a complementizer, a conjunction or an interjection, and the record
\* stands as long as no later conjunction or complementizer resets it.
C4_CliticChain ==
    Classed =>
        /\ \A n \in DOMAIN prefield :
              could_be_prefield_clitic(prefield[n]) = Eligible(prefield[n])
        /\ \A n \in DOMAIN prefield : ChainBroken(n) =>
              /\ NotAClitic(n)
              /\ ( /\ n <= Len(l)
                   /\ \A m \in n..Len(l) : ~ IsBoundary(m)
                   /\ ~ is_prefield_interjection(prefield[n]) )
                    => l[n] = is_dephead(prefield[n])

\* C4: in French a childless pronoun with a clitic form, followed in the
\* prefield by a noun, was recorded as a dependent of the head.
C4_Witness ==
    /\ pc = "done"
    /\ lang = french
    /\ \E n \in DOMAIN prefield :
          /\ ChainBroken(n)
          /\ hit[prefield[n]].form = "le"
          /\ get_children(prefield[n]) = <<>>
          /\ l[n]
          /\ prefield_countable_head_status[n]

\* C5 (empty-prefield law): the leftmost word is never after the anchor and
\* the prefield is the span from it to the anchor; when it is the anchor,
\* script() raises nothing and ends with T-1_form..T-4_form '' and the
\* diagnostic lists empty, hit.tags['prefield'] the empty list.
C5_EmptyPrefield ==
    /\ Located =>
          /\ w1_ix <= T_ix
          /\ prefield = [n \in 1..(T_ix - w1_ix) |-> w1_ix + n - 1]
    /\ (pc = "locators" /\ w1_ix = T_ix) => ENABLED Classify
    /\ (pc = "error" /\ kws # <<>>) => w1_ix # T_ix
    /\ (pc = "done" /\ w1_ix = T_ix) =>
          /\ \A k \in 1..NRanks : tags[key_form(k)] = ""
          /\ \A x \in ListKeys : tags[x] = ""
          /\ tags["prefield"] = <<>>

\* C5: a clause whose anchor has tokens before it, none of them of the
\* clause, has been analysed.
C5_Witness ==
    /\ pc = "done"
    /\ w1_ix = T_ix
    /\ T_ix > 1

\* C6 (unsupported language): with a selector other than 'french' script()
\* raises nothing on a clause with an anchor, no token is a complementizer
\* or a clitic, every T-k_form is '', and the structural flags and the
\* countable heads are those of structure and part of speech alone.
C6_UnsupportedLanguage ==
    (lang # french /\ kws # <<>>) =>
        /\ pc # "error"
        /\ Located =>
              \A tok \in DOMAIN hit :
                  is_c_element(tok, 0) = "False" /\ ~ is_prefield_clitic(tok)
        /\ Classed =>
              \A n \in DOMAIN prefield :
                  /\ ~ prefield_c_status[n]
                  /\ ~ prefield_clitic_status[n]
                  /\ prefield_conjunction_status[n] =
                        ( /\ hit[prefield[n]].UPOS = "CCONJ"
                          /\ is_dephead(prefield[n])
                          /\ get_children(prefield[n]) = <<>> )
                  /\ prefield_interjection_status[n] = (hit[prefield[n]].UPOS = "INTJ")
        /\ Reduced =>
              \A n \in DOMAIN prefield :
                  prefield_countable_head_status[n] =
                      ( /\ is_dephead(prefield[n])
                        /\ hit[prefield[n]].UPOS # "INTJ"
                        /\ \A m \in n..Len(prefield) :
                              ~ is_prefield_conjunction(prefield[m])
                        /\ ~ is_parenthetical(prefield[n])
                        /\ ~ is_vocative(prefield[n]) )
        /\ pc = "done" =>
              /\ \A k \in 1..NRanks : tags[key_form(k)] = ""
              /\ tags["prefield_cs"] = ""
              /\ tags["prefield_clitics"] = ""
              /\ tags["prefield_conjunctions"] =
                    FormsAt({n \in DOMAIN prefield : is_prefield_conjunction(prefield[n])})
              /\ tags["prefield_countable_heads"] = FormsAt(Countable)

\* C6: with another selector a subordinator and a clitic-form pronoun next
\* to the anchor, both dependents of the head, were counted as heads.
C6_Witness ==
    /\ pc = "done"
    /\ lang # french
    /\ \E n \in Countable : hit[prefield[n]].form = "que"
    /\ \E n \in Countable : hit[prefield[n]].form = "le" /\ prefield[n] + 1 = T_ix

InScenario == hit = Scenario.hit /\ kws = Scenario.kws /\ lang = french

\* what C7 says of the scenario apart from the tag of "Jean"
ScenarioOutput ==
    /\ tags["prefield_countable_heads"] = "Hier Jean"
    /\ tags["prefield"] = <<"Hier", ",", "Jean">>
    /\ rank_tok = <<3, 1, 0, 0>>
    /\ tags["T-2_form"] = "ADVP"
    /\ tags["T-3_form"] = ""
    /\ tags["T-4_form"] = ""

\* C7 (end-to-end scenario) as stated: "Hier , Jean parlé" in French gives
\* the countable heads "Hier Jean", T-1_form NP for the pronoun "Jean",
\* T-2_form ADVP for "Hier", T-3_form and T-4_form ''.
C7_Original ==
    (InScenario /\ pc = "done") => ScenarioOutput /\ tags["T-1_form"] = "NP"

\* C7 (end-to-end scenario), amended: the same, but T-1_form, the tag of the
\* pronoun "Jean", is NP:PRON.
C7_Scenario ==
    (InScenario /\ pc = "done") => ScenarioOutput /\ tags["T-1_form"] = "NP:PRON"

\* C7: the scenario has been analysed.
C7_Witness == InScenario /\ pc = "done" /\ tags["w1"] = "Hier"

\* the adposition children of tok: UPOS ADP, relation case, in child order
CaseAdps(tok) ==
    SelectSeq(get_children(tok),
              LAMBDA c : hit[c].UPOS = "ADP" /\ hit[c].DEPREL = "case")

\* the canonical lemma of an adposition form of the vocabulary ("": none)
Lemma(form) ==
    CASE form \in {"à", "au"} -> "à"
      [] form \in {"de", "De"} -> "de"
      [] form = "en" -> "en"
      [] form = "par" -> "par"
      [] form = "pour" -> "pour"
      [] OTHER -> ""

\* the ranks of the noun heads: <<k, tok>>, tok a NOUN or PROPN
NounRanks ==
    {kt \in (1..NRanks) \X DOMAIN hit :
        rank_tok[kt[1]] = kt[2] /\ hit[kt[2]].UPOS \in {"NOUN", "PROPN"}}

\* C8 (adposition-wrap law) as stated: a noun head with, among its
\* children, a case adposition of a canonical lemma is tagged
\* PP:<lemma>[NP]; with no case adposition NP; with a case adposition that
\* matches no pattern PP[NP].
C8_Original ==
    (Ranked /\ lang = french) =>
        \A kt \in NounRanks :
            LET cs  == CaseAdps(kt[2])
                tag == tags[key_form(kt[1])]
            IN  /\ cs = <<>> => tag = "NP"
                /\ (\E n \in DOMAIN cs : Lemma(hit[cs[n]].form) # "") =>
                      \E n \in DOMAIN cs :
                          /\ Lemma(hit[cs[n]].form) # ""
                          /\ tag = "PP:" \o Lemma(hit[cs[n]].form) \o "[NP]"

\* C8 (adposition-wrap law), amended: the first case adposition among the
\* children, in child order, decides: the head is tagged PP:<lemma>[NP]
\* when that adposition has a canonical lemma (the first entry of ADPS_FR
\* whose pattern fully matches its lower-cased form), PP[NP] when it has
\* none, and NP when the head has no case adposition.
C8_AdpositionWrap ==
    (Ranked /\ lang = french) =>
        \A kt \in NounRanks :
            LET cs  == CaseAdps(kt[2])
                tag == tags[key_form(kt[1])]
            IN  /\ cs = <<>> => tag = "NP"
                /\ cs # <<>> =>
                      /\ adp_lemma(lower(hit[cs[1]].form), 1) =
                            (IF Lemma(hit[cs[1]].form) = "" THEN "P"
                             ELSE Lemma(hit[cs[1]].form))
                      /\ Lemma(hit[cs[1]].form) # "" =>
                            tag = "PP:" \o Lemma(hit[cs[1]].form) \o "[NP]"
                      /\ Lemma(hit[cs[1]].form) = "" => tag = "PP[NP]"

\* C8: a noun with two case adpositions, the first "au" and the second of
\* another lemma, has been tagged.
C8_Witness ==
    /\ pc = "done"
    /\ lang = french
    /\ tags["T-1_form"] = "PP:à[NP]"
    /\ \E kt \in NounRanks :
          /\ Len(CaseAdps(kt[2])) = 2
          /\ hit[CaseAdps(kt[2])[1]].form = "au"
          /\ Lemma(hit[CaseAdps(kt[2])[2]].form) = "de"

\* some token is its own ancestor (cyclic parentage)
RECURSIVE Ancestors(_, _)
Ancestors(S, h) ==
    LET N == S \cup ({h[t].parent : t \in S} \ {0})
    IN  IF N = S THEN S ELSE Ancestors(N, h)
Cyclic(h) ==
    \E t \in DOMAIN h : h[t].parent # 0 /\ t \in Ancestors({h[t].parent}, h)

\* C9 (precondition violations): on a clause with no anchor or with cyclic
\* parentage script() ends in an error and writes no output key: it never
\* gets to the taggers, never returns, and hit.tags keeps its keys.
C9_PreconditionError ==
    (kws = <<>> \/ Cyclic(hit)) =>
        /\ pc \notin {"testcode", "done"}
        /\ DOMAIN tags \in {{}, OutputKeys}
        /\ DOMAIN tags = OutputKeys => tags["T-1_form"] = "XX"

\* the base tag the cascade of C10 gives a token of the vocabulary
CascadeTag(tok) ==
    LET fm == hit[tok].form
        up == hit[tok].UPOS
    IN  IF up = "ADV" /\ fm \in {"si", "se", "s'"} THEN "ADVP:si"
        ELSE IF up = "PRON" /\ fm \in {"je", "tu", "il", "ils", "elle", "elles",
                                       "nous", "vous", "Vous"}
            THEN "NP:PRON:Prs:Nom"
        ELSE IF up = "PRON" /\ fm = "ce" THEN "NP:PRON:Dem:ce"
        ELSE IF up = "PRON" /\ fm = "cil" THEN "NP:PRON:Dem"
        ELSE IF up = "PRON" THEN "NP:PRON"
        ELSE IF up \in {"NOUN", "PROPN"} THEN "NP"
        ELSE IF up = "VERB" /\ hit[tok].FEATS \in {"VerbForm=Fin", "Mood=Ind|VerbForm=Fin"}
            THEN "TP"
        ELSE IF up = "VERB" THEN "VP"
        ELSE IF up = "ADJ" THEN "AP"
        ELSE IF up = "ADV" THEN "ADVP"
        ELSE "XX"

\* C10 (cascade precedence): in French the tag of a ranked token with no
\* case adposition is the first matching rule of the cascade; a PRON with a
\* nominative personal form (je, tu, il, ils, elle, elles, nous, vous) gets
\* NP:PRON:Prs:Nom, an ADV with a conditional form ADVP:si.
C10_Cascade ==
    (Ranked /\ lang = french) =>
        \A k \in 1..NRanks :
            (rank_tok[k] # 0 /\ CaseAdps(rank_tok[k]) = <<>>) =>
                tags[key_form(k)] = CascadeTag(rank_tok[k])

=============================================================================
